---- MODULE Spec2Model ----
(***************************************************************************)
(* A model of LuaEndToPy (src/main.py): the line-oriented Lua-to-Python    *)
(* converter.  Text is a sequence of one-character strings, so that        *)
(* indentation, stripping, splitting and the rewrite rules act on the      *)
(* characters as the Python code does.  A line index is 0-based as in the  *)
(* source; lines[i + 1] is the TLA+ element holding Python's lines[i].     *)
(***************************************************************************)
EXTENDS Integers, Sequences, FiniteSets, TLC

(* ---------------------------------------------------------------------- *)
(* Bounds of the model                                                     *)
(* ---------------------------------------------------------------------- *)
\* longest input (in lines) of the block-structure specification
MaxLines == 3
\* longest input (in lines) of the literal-extractor specification
MaxLitLines == 3
\* most entry lines after the `name = {` opener in the table specification
MaxTableLines == 3
\* numeric for-loops are drawn with start, stop in -MaxInt..MaxInt
MaxInt == 3
\* and step in -MaxStep..MaxStep, zero excluded
MaxStep == 2
\* the longest input of the worked example's specification
MaxExampleLines == 4
\* the longest input of the returned-text specification
MaxOutputLines == 3
\* the longest input of the specification with fairness
MaxFairLines == 2
\* the number of calls of convert() made on one instance
MaxRuns == 2

(* ---------------------------------------------------------------------- *)
(* Python string primitives                                                *)
(* ---------------------------------------------------------------------- *)
\* str.isspace for one character (what strip/lstrip/rstrip and \s remove)
IsSpace(c) == c \in {" ", "\t", "\n", "\r"}

\* the character class \w of the re module, over the ASCII alphabet
WordChars ==
    {"a","b","c","d","e","f","g","h","i","j","k","l","m","n","o","p","q","r",
     "s","t","u","v","w","x","y","z",
     "A","B","C","D","E","F","G","H","I","J","K","L","M","N","O","P","Q","R",
     "S","T","U","V","W","X","Y","Z",
     "0","1","2","3","4","5","6","7","8","9","_"}
IsWord(c) == c \in WordChars

Digits == {"0","1","2","3","4","5","6","7","8","9"}

Min(S) == CHOOSE m \in S : \A n \in S : m <= n
Max(S) == CHOOSE m \in S : \A n \in S : m >= n

\* s[from:] with a 1-based first index
Drop(s, from) == SubSeq(s, from, Len(s))
\* s[:upto] with a 1-based last index
Take(s, upto) == SubSeq(s, 1, upto)

\* len(line) - len(line.lstrip())
Leading(s) ==
    IF \A i \in 1..Len(s) : IsSpace(s[i]) THEN Len(s)
    ELSE Min({i \in 1..Len(s) : ~IsSpace(s[i])}) - 1

\* str.lstrip()
LStrip(s) == Drop(s, Leading(s) + 1)

\* str.rstrip()
RStrip(s) ==
    IF \A i \in 1..Len(s) : IsSpace(s[i]) THEN <<>>
    ELSE Take(s, Max({i \in 1..Len(s) : ~IsSpace(s[i])}))

\* str.strip()
Strip(s) == LStrip(RStrip(s))

\* str.startswith(p), and the same test at a 1-based position
StartsWithAt(s, p, at) ==
    /\ at >= 1
    /\ at + Len(p) - 1 <= Len(s)
    /\ SubSeq(s, at, at + Len(p) - 1) = p
StartsWith(s, p) == StartsWithAt(s, p, 1)
EndsWith(s, p) == Len(p) <= Len(s) /\ Drop(s, Len(s) - Len(p) + 1) = p

\* str.find(p, from) as a 1-based index, 0 when p does not occur
FindFrom(s, p, from) ==
    LET hits == {i \in from..(Len(s) - Len(p) + 1) : StartsWithAt(s, p, i)}
    IN IF hits = {} THEN 0 ELSE Min(hits)
Find(s, p) == FindFrom(s, p, 1)

\* `p in s`
Contains(s, p) == Find(s, p) # 0

\* s.split(p, 1)[0]: the text before the first p (all of s when p is absent)
SplitHead(s, p) == IF Contains(s, p) THEN Take(s, Find(s, p) - 1) ELSE s
\* s.split(p, 1)[1]: the text after the first p
SplitTail(s, p) == Drop(s, Find(s, p) + Len(p))

\* s.rstrip(',')
RStripComma(s) ==
    IF \A i \in 1..Len(s) : s[i] = "," THEN <<>>
    ELSE Take(s, Max({i \in 1..Len(s) : s[i] # ","}))

\* sep.join(parts)
RECURSIVE Join(_, _)
Join(parts, sep) ==
    IF parts = <<>> THEN <<>>
    ELSE IF Len(parts) = 1 THEN parts[1]
    ELSE parts[1] \o sep \o Join(Tail(parts), sep)

\* ''.join(parts)
RECURSIVE Flatten(_)
Flatten(parts) == IF parts = <<>> THEN <<>> ELSE parts[1] \o Flatten(Tail(parts))

\* the index of the first character at or after `at` that is not white
\* space (Len(s) + 1 when there is none): where a greedy \s* stops
SkipSpace(s, at) ==
    LET rest == {i \in at..Len(s) : ~IsSpace(s[i])}
    IN IF rest = {} THEN Len(s) + 1 ELSE Min(rest)

\* the index of the first character at or after `at` that is not a word
\* character: where a greedy \w+ stops
SkipWord(s, at) ==
    LET rest == {i \in at..Len(s) : ~IsWord(s[i])}
    IN IF rest = {} THEN Len(s) + 1 ELSE Min(rest)

NL == <<"\n">>

\* LuaEndToPy.get_indent: `level` spaces
get_indent(level) == [i \in 1..level |-> " "]

(* ---------------------------------------------------------------------- *)
(* The line matchers of convert(): each re.match of the dispatcher, as the *)
(* record of its groups, or NoMatch                                        *)
(* ---------------------------------------------------------------------- *)
NoMatch == [ok |-> FALSE]

\* The groups of `\s+(.+?)\s+` stretched over a whole region r (the text
\* between a leading keyword and the closing keyword of the line): the
\* greedy \s+ takes the leading white space but leaves one character to the
\* group and one to the trailing \s+, the lazy group ends at the last
\* character that is not white space.
LazyRegionOk(r) == Len(r) >= 3 /\ IsSpace(r[1]) /\ IsSpace(r[Len(r)])
LazyRegionGroup(r) ==
    LET first == Min({SkipSpace(r, 1), Len(r) - 1})
        solid == {i \in first..(Len(r) - 1) : ~IsSpace(r[i])}
        last  == IF solid = {} THEN first ELSE Max(solid)
    IN SubSeq(r, first, last)

\* `^(\s*)KW\s+(.+?)\s+CLOSE\s*$`  (if..then, elseif..then, while..do)
KeywordLine(line, kw, close) ==
    LET lead == Leading(line)
        r    == RStrip(line)
        from == lead + Len(kw) + 1
        upto == Len(r) - Len(close)
        reg  == SubSeq(r, from, upto)
    IN IF /\ StartsWithAt(line, kw, lead + 1)
          /\ EndsWith(r, close)
          /\ from <= upto
          /\ LazyRegionOk(reg)
       THEN [ok |-> TRUE, indent_str |-> Take(line, lead), cond |-> LazyRegionGroup(reg)]
       ELSE NoMatch

\* re.match(r'^(\s*)if\s+(.+?)\s+then\s*$', line)
if_match(line) == KeywordLine(line, <<"i","f">>, <<"t","h","e","n">>)
\* re.match(r'^(\s*)elseif\s+(.+?)\s+then\s*$', line)
elif_match(line) == KeywordLine(line, <<"e","l","s","e","i","f">>, <<"t","h","e","n">>)
\* re.match(r'^(\s*)while\s+(.+?)\s+do\s*$', line)
while_match(line) == KeywordLine(line, <<"w","h","i","l","e">>, <<"d","o">>)

\* re.match(r'^\s*[\w_]+\s*=\s*\{', line), with the groups of var_match
table_match(line) ==
    LET lead == Leading(line)
        w    == SkipWord(line, lead + 1)
        eq   == SkipSpace(line, w)
        br   == SkipSpace(line, eq + 1)
    IN IF /\ w > lead + 1
          /\ StartsWithAt(line, <<"=">>, eq)
          /\ StartsWithAt(line, <<"{">>, br)
       THEN [ok |-> TRUE, indent_str |-> Take(line, lead),
             var |-> SubSeq(line, lead + 1, w - 1)]
       ELSE NoMatch

\* re.match(r'^(\s*)(local\s+)?function\s+(\w+)\s*\(([^)]*)\)', line)
func_match(line) ==
    LET lead == Leading(line)
        loc  == /\ StartsWithAt(line, <<"l","o","c","a","l">>, lead + 1)
                /\ SkipSpace(line, lead + 6) > lead + 6
        kw   == IF loc THEN SkipSpace(line, lead + 6) ELSE lead + 1
        nm   == SkipSpace(line, kw + 8)
        nmE  == SkipWord(line, nm)
        par  == SkipSpace(line, nmE)
        cl   == FindFrom(line, <<")">>, par + 1)
    IN IF /\ StartsWithAt(line, <<"f","u","n","c","t","i","o","n">>, kw)
          /\ nm > kw + 8
          /\ nmE > nm
          /\ StartsWithAt(line, <<"(">>, par)
          /\ cl # 0
       THEN [ok |-> TRUE, indent_str |-> Take(line, lead),
             name |-> SubSeq(line, nm, nmE - 1),
             args |-> SubSeq(line, par + 1, cl - 1)]
       ELSE NoMatch

\* re.match(r'^(\s*)for\s+(\w+)\s*=\s*(.+?)\s*,\s*(.+?)(?:\s*,\s*(.+?))?\s+do\s*$', line)
\* start is the text before the first comma, stop the text before the
\* second comma (or before the closing `do`), step the text after the
\* second comma; step is <<>> where Python has None.
for_num_match(line) ==
    LET lead == Leading(line)
        r    == RStrip(line)
        v    == SkipSpace(line, lead + 4)
        vE   == SkipWord(line, v)
        eq   == SkipSpace(line, vE)
        body == Strip(SubSeq(r, eq + 1, Len(r) - 2))
        c1   == Find(body, <<",">>)
        st   == RStrip(Take(body, c1 - 1))
        rest == LStrip(Drop(body, c1 + 1))
        c2   == Find(rest, <<",">>)
        two  == c2 > 1 /\ LStrip(Drop(rest, c2 + 1)) # <<>>
    IN IF /\ StartsWithAt(line, <<"f","o","r">>, lead + 1)
          /\ v > lead + 4
          /\ vE > v
          /\ StartsWithAt(line, <<"=">>, eq)
          /\ EndsWith(r, <<"d","o">>)
          /\ Len(r) - 2 > eq
          /\ IsSpace(r[Len(r) - 2])
          /\ c1 > 1
          /\ rest # <<>>
          /\ (c2 # 1)
       THEN [ok |-> TRUE, indent_str |-> Take(line, lead),
             var   |-> SubSeq(line, v, vE - 1),
             start |-> st,
             stop  |-> IF two THEN RStrip(Take(rest, c2 - 1)) ELSE rest,
             step  |-> IF two THEN LStrip(Drop(rest, c2 + 1)) ELSE <<>>]
       ELSE NoMatch

\* re.match(r'^(\s*)for\s+(.+?)\s+in\s+(.+?)\s+do\s*$', line): vars_part
\* ends at the first ` in ` that leaves an iterator before the closing `do`
for_gen_match(line) ==
    LET lead == Leading(line)
        r    == RStrip(line)
        reg  == SubSeq(r, lead + 4, Len(r) - 2)
        first == Min({SkipSpace(reg, 1), Len(reg) - 1})
        \* e: last index of vars_part; the rest is \s+ in \s+ iter \s+
        ends == {e \in first..Len(reg) :
                    LET ws == SkipSpace(reg, e + 1)
                    IN /\ ws > e + 1
                       /\ StartsWithAt(reg, <<"i","n">>, ws)
                       /\ LazyRegionOk(Drop(reg, ws + 2))}
        e    == Min(ends)
    IN IF /\ StartsWithAt(line, <<"f","o","r">>, lead + 1)
          /\ EndsWith(r, <<"d","o">>)
          /\ Len(r) - 2 >= lead + 4
          /\ LazyRegionOk(reg)
          /\ ends # {}
       THEN [ok |-> TRUE, indent_str |-> Take(line, lead),
             vars_part |-> SubSeq(reg, first, e),
             iter_part |-> LazyRegionGroup(Drop(reg, SkipSpace(reg, e + 1) + 2))]
       ELSE NoMatch

\* re.match(r'^(\s*)until\s+(.+)$', line)
until_match(line) ==
    LET lead == Leading(line)
        c    == Min({SkipSpace(line, lead + 6), Len(line)})
    IN IF /\ StartsWithAt(line, <<"u","n","t","i","l">>, lead + 1)
          /\ Len(line) >= lead + 7
          /\ IsSpace(line[lead + 6])
       THEN [ok |-> TRUE, indent_str |-> Take(line, lead), cond |-> Drop(line, c)]
       ELSE NoMatch
(* ---------------------------------------------------------------------- *)
(* Inputs                                                                  *)
(* ---------------------------------------------------------------------- *)
\* the input lines of the block-structure specification: one line or more
\* for every branch of the dispatcher
Catalogue ==
    { <<>>,
      <<"-","-"," ","c">>,
      <<"-","-","[","["," ","c"," ","]","]">>,
      <<"[","["," ","x"," ","]","]">>,
      <<"t"," ","="," ","{">>,
      <<"f","u","n","c","t","i","o","n"," ","f","(",")">>,
      <<" "," ","i","f"," ","x"," ","t","h","e","n">>,
      <<"e","l","s","e","i","f"," ","y"," ","t","h","e","n">>,
      <<"e","l","s","e">>,
      <<"e","n","d">>,
      <<" "," ","e","n","d">>,
      <<"w","h","i","l","e"," ","x"," ","d","o">>,
      <<"f","o","r"," ","i"," ","="," ","1",","," ","5"," ","d","o">>,
      <<"f","o","r"," ","k"," ","i","n"," ","t"," ","d","o">>,
      <<"r","e","p","e","a","t">>,
      <<"u","n","t","i","l"," ","x">>,
      <<" "," "," "," ","x"," ","="," ","1">>,
      <<" "," ","f","u","n","c","t","i","o","n"," ","g","(",")">> }

\* the statements of the rewrite specification
RewriteCatalogue ==
    { <<"f","u","n","c","t","i","o","n"," ","f","(",")">>,
      <<"e","n","d">>,
      <<"x"," ","="," ","n","i","l">>,
      <<" "," ","p","r","i","n","t","("," ","x"," ",")">>,
      <<"g","g",".","c","l","e","a","r","R","e","s","u","l","t","s","(",")">>,
      <<"g","g",".","g","e","t","R","a","n","g","e","s","(",")">>,
      <<"g","g",".","s","e","a","r","c","h","N","u","m","b","e","r","(","\"","1","\"",","," ","g","g",".","T","Y","P","E","_","D","W","O","R","D",")">>,
      <<"g","g",".","s","e","a","r","c","h","N","u","m","b","e","r","(","\"","1","\"",","," ","g","g",".","T","Y","P","E","_","D","W","O","R","D",","," ","g","g",".","S","I","G","N","_","E","Q","U","A","L",")">>,
      <<":",":","d","o","n","e",":",":">>,
      <<"g","o","t","o"," ","d","o","n","e">>,
      <<" "," "," "," ","x"," ","="," ","1">>,
      <<"l","o","c","a","l"," ","x"," ","="," ","1">> }

\* the lines of the literal-extractor specification
LitCatalogue ==
    { <<"[","["," ","x"," ","]","]">>,
      <<" "," ","[","["," ","x"," ","]","]">>,
      <<"[","["," ","a">>,
      <<" "," ","[","["," ","a">>,
      <<"[","[">>,
      <<"b"," ","]","]">>,
      <<"c">>,
      <<"-","-","[","["," ","c">>,
      <<"-","-","[","["," ","c"," ","]","]">> }

\* the body lines of the table specification
TableCatalogue ==
    { <<"1",",">>,
      <<"a"," ","="," ","1",",">>,
      <<"[","1","]"," ","="," ","2">>,
      <<"c","o","l","o","r"," ","="," ","1">>,
      <<" "," "," "," ","{">>,
      <<" "," "," "," ","}">>,
      <<"}">> }

\* the four lines of the worked example
ExampleCatalogue ==
    { <<"l","o","c","a","l"," ","x"," ","="," ","1">>,
      <<"i","f"," ","x"," ","=","="," ","1"," ","t","h","e","n">>,
      <<" "," ","p","r","i","n","t","(","x",")">>,
      <<"e","n","d">> }

\* the lines of the returned-text specification
OutputCatalogue ==
    { <<"t"," ","="," ","{">>,
      <<"a"," ","="," ","1",",">>,
      <<"}">>,
      <<"g","g",".","s","e","a","r","c","h","N","u","m","b","e","r","(","\"","1","\"",","," ","g","g",".","T","Y","P","E","_","D","W","O","R","D",")">>,
      <<"[","["," ","a">> }

\* all sequences over S of length 1..n
SeqsUpTo(S, n) == UNION {[1..k -> S] : k \in 1..n}

\* str(n) for an integer
RECURSIVE NatText(_)
NatText(n) ==
    LET d == <<"0","1","2","3","4","5","6","7","8","9">>[(n % 10) + 1]
    IN IF n < 10 THEN <<d>> ELSE Append(NatText(n \div 10), d)
IntText(n) == IF n < 0 THEN <<"-">> \o NatText(-n) ELSE NatText(n)

\* the header line of a numeric for loop; step 0 stands for "no step given"
ForLine(start, stop, step) ==
    <<"f","o","r"," ","i"," ","="," ">> \o IntText(start) \o <<","," ">> \o IntText(stop)
        \o (IF step = 0 THEN <<>> ELSE <<","," ">> \o IntText(step)) \o <<" ","d","o">>

\* every line an input of this model can hold
InputLines ==
    Catalogue \cup RewriteCatalogue \cup LitCatalogue \cup TableCatalogue \cup {<<"t"," ","="," ","{">>}
    \cup ExampleCatalogue
    \cup {ForLine(a, b, c) : a \in -MaxInt..MaxInt, b \in -MaxInt..MaxInt, c \in -MaxStep..MaxStep}

(* ---------------------------------------------------------------------- *)
(* apply_replacements: the ordered rewrite rules.  A rule is named by a    *)
(* string; MatchEnd gives where its pattern, tried at position i, stops    *)
(* (0: no match at i) and Replacement the text that re.sub puts there.     *)
(* The tables hold the rules whose patterns can match text built from the  *)
(* input lines of this model; every other rule of the source tables finds  *)
(* no match on such text and so leaves it as it is.                        *)
(* ---------------------------------------------------------------------- *)
\* str.lower() for one character
UpperCase == <<"A","B","C","D","E","F","G","H","I","J","K","L","M","N","O","P","Q","R","S","T","U","V","W","X","Y","Z">>
LowerCase == <<"a","b","c","d","e","f","g","h","i","j","k","l","m","n","o","p","q","r","s","t","u","v","w","x","y","z">>
LowerChar(c) ==
    IF \E k \in 1..Len(UpperCase) : UpperCase[k] = c
    THEN LowerCase[CHOOSE k \in 1..Len(UpperCase) : UpperCase[k] = c]
    ELSE c
Lower(s) == [i \in 1..Len(s) |-> LowerChar(s[i])]

\* \b at the gap before position i of s
Boundary(s, i) ==
    LET before == i > 1 /\ i - 1 <= Len(s) /\ IsWord(s[i - 1])
        after  == i >= 1 /\ i <= Len(s) /\ IsWord(s[i])
    IN before # after

\* `\bWORD\b` tried at i
WordEnd(s, w, i) ==
    IF StartsWithAt(s, w, i) /\ Boundary(s, i) /\ Boundary(s, i + Len(w))
    THEN i + Len(w) ELSE 0

\* `NAME\s*\(\s*\)` tried at i: a call without arguments
EmptyCallEnd(s, name, i) ==
    LET par == SkipSpace(s, i + Len(name))
        cl  == SkipSpace(s, par + 1)
    IN IF /\ StartsWithAt(s, name, i)
          /\ StartsWithAt(s, <<"(">>, par)
          /\ StartsWithAt(s, <<")">>, cl)
       THEN cl + 1 ELSE 0

\* the pieces of
\*   gg\.searchNumber\s*\(\s*"([^"]+)"\s*,\s*gg\.TYPE_(\w+)\s*(?:,\s*(.+?))?\s*\)
\* tried at i: value, type_, extra ('' when the optional group is absent)
SearchNumberAt(s, i) ==
    LET par  == SkipSpace(s, i + 15)
        q1   == SkipSpace(s, par + 1)
        q2   == FindFrom(s, <<"\"">>, q1 + 1)
        com  == SkipSpace(s, q2 + 1)
        ty   == SkipSpace(s, com + 1)
        tyE  == SkipWord(s, ty + 8)
        nx   == SkipSpace(s, tyE)
        ex   == Min({SkipSpace(s, nx + 1), Len(s)})
        cl   == FindFrom(s, <<")">>, ex + 1)
        head == /\ StartsWithAt(s, <<"g","g",".","s","e","a","r","c","h","N","u","m","b","e","r">>, i)
                /\ StartsWithAt(s, <<"(">>, par)
                /\ StartsWithAt(s, <<"\"">>, q1)
                /\ q2 > q1 + 1
                /\ StartsWithAt(s, <<",">>, com)
                /\ StartsWithAt(s, <<"g","g",".","T","Y","P","E","_">>, ty)
                /\ tyE > ty + 8
    IN IF head /\ StartsWithAt(s, <<",">>, nx) /\ ex > nx /\ cl # 0
       THEN [end |-> cl + 1, value |-> SubSeq(s, q1 + 1, q2 - 1),
             type_ |-> SubSeq(s, ty + 8, tyE - 1),
             extra |-> RStrip(SubSeq(s, ex, cl - 1))]
       ELSE IF head /\ StartsWithAt(s, <<")">>, nx)
       THEN [end |-> nx + 1, value |-> SubSeq(s, q1 + 1, q2 - 1),
             type_ |-> SubSeq(s, ty + 8, tyE - 1), extra |-> <<>>]
       ELSE [end |-> 0]

MatchEnd(rule, s, i) ==
    CASE rule = "nil"   -> WordEnd(s, <<"n","i","l">>, i)
      [] rule = "true"  -> WordEnd(s, <<"t","r","u","e">>, i)
      [] rule = "false" -> WordEnd(s, <<"f","a","l","s","e">>, i)
      [] rule = "~="    -> IF StartsWithAt(s, <<"~","=">>, i) THEN i + 2 ELSE 0
      [] rule = "goto"  ->
            \* goto\s+(\w+)
            LET nm == SkipSpace(s, i + 4) nmE == SkipWord(s, nm)
            IN IF StartsWithAt(s, <<"g","o","t","o">>, i) /\ nm > i + 4 /\ nmE > nm
               THEN nmE ELSE 0
      [] rule = "label" ->
            \* ::(\w+)::
            LET nmE == SkipWord(s, i + 2)
            IN IF StartsWithAt(s, <<":",":">>, i) /\ nmE > i + 2 /\ StartsWithAt(s, <<":",":">>, nmE)
               THEN nmE + 2 ELSE 0
      [] rule = "print" ->
            \* print\s*\(\s*(.*?)\s*\)
            LET par == SkipSpace(s, i + 5) cl == FindFrom(s, <<")">>, par + 1)
            IN IF StartsWithAt(s, <<"p","r","i","n","t">>, i) /\ StartsWithAt(s, <<"(">>, par) /\ cl # 0
               THEN cl + 1 ELSE 0
      [] rule = "gg.getRanges"    -> EmptyCallEnd(s, <<"g","g",".","g","e","t","R","a","n","g","e","s">>, i)
      [] rule = "gg.searchNumber" -> SearchNumberAt(s, i).end
      [] rule = "gg.clearResults" -> EmptyCallEnd(s, <<"g","g",".","c","l","e","a","r","R","e","s","u","l","t","s">>, i)
      [] rule = "gg.TYPE_DWORD"   ->
            \* gg\.TYPE_DWORD\b
            IF StartsWithAt(s, <<"g","g",".","T","Y","P","E","_","D","W","O","R","D">>, i) /\ Boundary(s, i + 13)
            THEN i + 13 ELSE 0

\* LuaEndToPy._handle_goto: the call that replaces `goto label`
_handle_goto(label) == <<"g","o","t","o","_">> \o label \o <<"(",")">>

\* a wrong variant of _handle_label that emits the call in place of the
\* marker: C10_GotoLabelInPlace tells it from the code
_handle_label_as_call(label) == <<"g","o","t","o","_">> \o label \o <<"(",")">>

\* LuaEndToPy._handle_label: the marker that replaces `::label::`
_handle_label(label) == <<"d","e","f"," ","g","o","t","o","_">> \o label \o <<"(",")",":"," ","p","a","s","s">>

\* the label name of a goto match at i
GotoName(s, i) == SubSeq(s, SkipSpace(s, i + 4), SkipWord(s, SkipSpace(s, i + 4)) - 1)
\* the label name of a label match at i
LabelName(s, i) == SubSeq(s, i + 2, SkipWord(s, i + 2) - 1)

\* re.search(rf'gg\.({flag}(\w+))', extra): the start of the leftmost
\* match, 0 without one
FlagAt(extra, pat) ==
    LET hits == {i \in 1..Len(extra) :
                    StartsWithAt(extra, pat, i) /\ SkipWord(extra, i + Len(pat)) > i + Len(pat)}
    IN IF hits = {} THEN 0 ELSE Min(hits)

\* match.group(1) of the match at i: the flag name without `gg.`
FlagGroup(extra, pat, i) == SubSeq(extra, i + 3, SkipWord(extra, i + Len(pat)) - 1)

\* f', {match.group(1).lower()}={match.group(1)}'
MaskText(group) == <<","," ">> \o Lower(group) \o <<"=">> \o group

\* what one flag adds to `mask`, its leftmost match being at i
MaskAt(extra, pat, i) == IF i = 0 THEN <<>> ELSE MaskText(FlagGroup(extra, pat, i))

\* the `mask` contribution of one flag of _gg_search_number
MaskOf(extra, flag) == MaskAt(extra, <<"g","g",".">> \o flag, FlagAt(extra, <<"g","g",".">> \o flag))

\* LuaEndToPy._gg_search_number (the text it returns)
_gg_search_number(value, type_, extra) ==
    <<"g","g",".","s","e","a","r","c","h","_","n","u","m","b","e","r","(","\"">> \o value \o <<"\"",","," ","g","g",".","T","Y","P","E","_">> \o type_
        \o MaskOf(extra, <<"R","E","G","I","O","N","_">>) \o MaskOf(extra, <<"S","I","G","N","_">>)
        \o MaskOf(extra, <<"N","U","M","B","E","R","_","F","L","A","G","_">>) \o <<")">>

\* the handler of the searchNumber rule applied to the groups m of a match
SearchNumberText(m) == _gg_search_number(m.value, m.type_, m.extra)

\* print(\1) for the call whose parenthesis opens at par and closes at cl
PrintText(s, par, cl) ==
    <<"p","r","i","n","t","(">> \o RStrip(SubSeq(s, Min({SkipSpace(s, par + 1), cl}), cl - 1)) \o <<")">>

Replacement(rule, s, i) ==
    CASE rule = "nil"   -> <<"N","o","n","e">>
      [] rule = "true"  -> <<"T","r","u","e">>
      [] rule = "false" -> <<"F","a","l","s","e">>
      [] rule = "~="    -> <<"!","=">>
      [] rule = "goto"  -> _handle_goto(GotoName(s, i))
      [] rule = "label" -> _handle_label(LabelName(s, i))
      [] rule = "print" ->
            PrintText(s, SkipSpace(s, i + 5), FindFrom(s, <<")">>, SkipSpace(s, i + 5) + 1))
      [] rule = "gg.getRanges"    -> <<"g","g",".","g","e","t","_","r","a","n","g","e","s","(",")">>
      [] rule = "gg.searchNumber" -> SearchNumberText(SearchNumberAt(s, i))
      [] rule = "gg.clearResults" -> <<"g","g",".","c","l","e","a","r","_","r","e","s","u","l","t","s","(",")">>
      [] rule = "gg.TYPE_DWORD"   -> <<"g","g",".","T","Y","P","E","_","D","W","O","R","D">>

\* the start of the leftmost match at or after `from` (0: none): regex.search
NextMatch(rule, s, from) ==
    LET hits == {i \in from..Len(s) : MatchEnd(rule, s, i) # 0}
    IN IF hits = {} THEN 0 ELSE Min(hits)

\* regex.sub(repl, code): every non-overlapping match replaced, left to
\* right; ReSubAt continues from the leftmost match i at or after `from`
RECURSIVE ReSubFrom(_, _, _)
RECURSIVE ReSubAt(_, _, _, _)
ReSubAt(rule, s, from, i) ==
    IF i = 0 THEN Drop(s, from)
    ELSE SubSeq(s, from, i - 1) \o Replacement(rule, s, i)
            \o ReSubFrom(rule, s, MatchEnd(rule, s, i))
ReSubFrom(rule, s, from) == ReSubAt(rule, s, from, NextMatch(rule, s, from))
ReSub(rule, s) == ReSubFrom(rule, s, 1)

\* the names a handler rule (goto or label) is called with, in match order
RECURSIVE NamesFrom(_, _, _)
RECURSIVE NamesAt(_, _, _)
NamesAt(rule, s, i) ==
    IF i = 0 THEN <<>>
    ELSE <<IF rule = "goto" THEN GotoName(s, i) ELSE LabelName(s, i)>>
            \o NamesFrom(rule, s, MatchEnd(rule, s, i))
NamesFrom(rule, s, from) == NamesAt(rule, s, NextMatch(rule, s, from))

\* the general `patterns` table, in source order
patterns == <<"nil", "true", "false", "~=", "goto", "label", "print">>
\* the gg_patterns table, in source order
gg_patterns == <<"gg.getRanges", "gg.searchNumber", "gg.clearResults", "gg.TYPE_DWORD">>

\* pattern.split('.')[1].split('(')[0]: the token a gg rule records
GGToken(rule) ==
    CASE rule = "gg.getRanges"    -> "getRanges\\s*\\"
      [] rule = "gg.searchNumber" -> "searchNumber\\s*\\"
      [] rule = "gg.clearResults" -> "clearResults\\s*\\"
      [] rule = "gg.TYPE_DWORD"   -> "TYPE_DWORD\\b"

\* one step of the `patterns` loop on the record acc: the text (code), the
\* names added to gg_functions (gg) and the names the goto and label
\* handlers were called with (gotos, labels)
PatternStep(acc, rule) ==
    [code   |-> ReSub(rule, acc.code),
     gg     |-> acc.gg,
     gotos  |-> IF rule = "goto" THEN acc.gotos \o NamesFrom(rule, acc.code, 1) ELSE acc.gotos,
     labels |-> IF rule = "label" THEN acc.labels \o NamesFrom(rule, acc.code, 1) ELSE acc.labels]

RECURSIVE PatternLoop(_, _)
PatternLoop(acc, n) ==
    IF n = 0 THEN acc ELSE PatternStep(PatternLoop(acc, n - 1), patterns[n])

\* `if regex.search(code): self.gg_functions.add(...)` on the substituted
\* text; the searchNumber handler has added its own name when it was called
GGRecord(acc, rule, code) ==
    [acc EXCEPT
        !.code = code,
        !.gg = acc.gg
                \cup (IF rule = "gg.searchNumber" /\ NextMatch(rule, acc.code, 1) # 0
                      THEN {"searchNumber"} ELSE {})
                \cup (IF NextMatch(rule, code, 1) # 0 THEN {GGToken(rule)} ELSE {})]

\* one step of the gg_patterns loop
GGStep(acc, rule) == GGRecord(acc, rule, ReSub(rule, acc.code))

RECURSIVE GGLoop(_, _)
GGLoop(acc, n) == IF n = 0 THEN acc ELSE GGStep(GGLoop(acc, n - 1), gg_patterns[n])

\* LuaEndToPy.apply_replacements: the rewritten text (code), the names
\* added to gg_functions, and the label and goto names handed to the two
\* handlers
apply_replacements(code) ==
    GGLoop(PatternLoop([code |-> code, gg |-> {}, gotos |-> <<>>, labels |-> <<>>],
                       Len(patterns)),
           Len(gg_patterns))

\* apply_replacements, tabulated over the input lines
Rewritten == [line \in InputLines |-> apply_replacements(line)]

(* ---------------------------------------------------------------------- *)
(* extract_multiline                                                       *)
(* ---------------------------------------------------------------------- *)
closer == <<"]","]">>
OpenerOf(is_comment) == IF is_comment THEN <<"-","-","[","[">> ELSE <<"[","[">>

\* the diagnostics, as records: the text of a warning is fixed by its kind
\* and its fields
LiteralWarning(is_comment, start) ==
    [kind |-> "literal", is_comment |-> is_comment, line |-> start + 1]
ExpectedWarning(end_kw, structure_type, start) ==
    [kind |-> "expected", end_kw |-> end_kw, type |-> structure_type, line |-> start]
UnclosedWarning(s) ==
    [kind |-> "unclosed", type |-> s.type, line |-> s.line + 1]

\* a wrong variant of Unterminated that hands the opener's index back:
\* C15_Terminates tells it from the code
UnterminatedAtStart(content_lines, i, is_comment, start) ==
    [content |-> Join(content_lines, NL), next |-> start,
     warnings |-> <<LiteralWarning(is_comment, start)>>]

\* a wrong variant of Unterminated that reports nothing: C5_UnterminatedLiteral
\* tells it from the code
UnterminatedSilent(content_lines, i, is_comment, start) ==
    [content |-> Join(content_lines, NL), next |-> i, warnings |-> <<>>]

\* the exit of extract_multiline at the end of the input: the warning, then
\* the lines consumed and the index i
Unterminated(content_lines, i, is_comment, start) ==
    [content |-> Join(content_lines, NL), next |-> i,
     warnings |-> <<LiteralWarning(is_comment, start)>>]

\* the `while i < len(self.lines) and nesting > 0` loop of extract_multiline
RECURSIVE ExtractLoop(_, _, _, _, _, _)
ExtractLoop(ls, start, is_comment, i, nesting, content_lines) ==
    IF i < Len(ls) /\ nesting > 0
    THEN LET current == ls[i + 1]
             opened  == IF StartsWith(Strip(current), OpenerOf(is_comment))
                        THEN nesting + 1 ELSE nesting
         IN IF Contains(current, closer) /\ opened - 1 = 0
            THEN [content |-> Join(Append(content_lines, SplitHead(current, closer)), NL),
                  next |-> i + 1, warnings |-> <<>>]
            ELSE ExtractLoop(ls, start, is_comment, i + 1,
                             IF Contains(current, closer) THEN opened - 1 ELSE opened,
                             Append(content_lines, current))
    ELSE Unterminated(content_lines, i, is_comment, start)

\* LuaEndToPy.extract_multiline(start, is_comment) over the lines ls: the
\* returned (content, next index) and the warnings it appends
extract_multiline(ls, start, is_comment) ==
    LET current   == ls[start + 1]
        pos       == Len(OpenerOf(is_comment))
        remainder == RStrip(Drop(current, pos + 1))
    IN IF Len(current) > pos /\ Contains(remainder, closer)
       THEN [content |-> SplitHead(remainder, closer), next |-> start + 1, warnings |-> <<>>]
       ELSE ExtractLoop(ls, start, is_comment, start + 1, 1,
                        <<IF Len(current) > pos THEN remainder ELSE <<>> >>)

(* ---------------------------------------------------------------------- *)
(* parse_table                                                             *)
(* ---------------------------------------------------------------------- *)
\* re.match(r'\[([^]=]+)\]\s*=\s*(.*)', stripped)
key_match(stripped) ==
    LET stops == {i \in 2..Len(stripped) : stripped[i] \in {"]", "="}}
        rb    == Min(stops)
        eq    == SkipSpace(stripped, rb + 1)
    IN IF /\ StartsWith(stripped, <<"[">>)
          /\ stops # {}
          /\ rb > 2
          /\ stripped[rb] = "]"
          /\ StartsWithAt(stripped, <<"=">>, eq)
       THEN [ok |-> TRUE, key |-> SubSeq(stripped, 2, rb - 1),
             val |-> Drop(stripped, SkipSpace(stripped, eq + 1))]
       ELSE NoMatch

\* the words whose presence anywhere in an entry keeps it from being keyed
TableKeywords == {<<"f","u","n","c","t","i","o","n">>, <<"i","f">>, <<"f","o","r">>, <<"w","h","i","l","e">>, <<"l","o","c","a","l">>, <<"a","n","d">>, <<"o","r">>}

\* '=' in stripped and not any(kw in stripped for kw in [...])
BareKeyed(stripped) ==
    Contains(stripped, <<"=">>) /\ ~ \E kw \in TableKeywords : Contains(stripped, kw)

\* items.append(f"{key}: {val}") for the groups m of key_match
KeyedItem(m) == m.key \o <<":"," ">> \o Strip(RStripComma(m.val))

\* the entry a body line contributes to `items`
TableItem(stripped) ==
    IF key_match(stripped).ok
    THEN KeyedItem(key_match(stripped))
    ELSE IF BareKeyed(stripped)
    THEN <<"'">> \o Strip(SplitHead(stripped, <<"=">>)) \o <<"'",":"," ">>
            \o RStripComma(Strip(SplitTail(stripped, <<"=">>)))
    ELSE RStripComma(stripped)

\* the entry of a body line and whether it makes the table a dict, tabulated
\* over the input lines
TableEntry ==
    [line \in InputLines |->
        [item  |-> TableItem(Strip(line)),
         keyed |-> key_match(Strip(line)).ok \/ BareKeyed(Strip(line))]]

\* the lines parse_table appends once its loop has ended
TableEmit(base_indent, items, is_dict) ==
    <<get_indent(base_indent) \o (IF is_dict THEN <<"{">> ELSE <<"[">>) \o NL>>
    \o [k \in 1..Len(items) |-> get_indent(base_indent + 4) \o items[k] \o <<",">> \o NL]
    \o <<get_indent(base_indent) \o (IF is_dict THEN <<"}">> ELSE <<"]">>) \o NL>>

\* LuaEndToPy.parse_table(start, base_indent): the loop from index i on,
\* with the items and is_dict gathered so far and the lines py that nested
\* calls have appended already.  Returns the index it stops at and the
\* lines appended to py_lines.
RECURSIVE TableLoop(_, _, _, _, _, _)
RECURSIVE TableLine(_, _, _, _, _, _, _)
RECURSIVE TableAfterSub(_, _, _, _, _, _)

\* the loop goes on after the nested call that returned sub
TableAfterSub(ls, base_indent, items, is_dict, py, sub) ==
    TableLoop(ls, sub.next, base_indent, Append(items, <<"{",".",".",".","}">>), is_dict, py \o sub.py)

\* one pass of the loop, over the line with text `stripped` at index i
TableLine(ls, i, base_indent, items, is_dict, py, stripped) ==
    IF stripped = <<"}">> /\ Leading(ls[i + 1]) <= base_indent
    THEN [next |-> i, py |-> py \o TableEmit(base_indent, items, is_dict)]
    ELSE IF StartsWith(stripped, <<"{">>)
    THEN TableAfterSub(ls, base_indent, items, is_dict, py,
                       TableLoop(ls, i + 1, Leading(ls[i + 1]), <<>>, FALSE, <<>>))
    ELSE TableLoop(ls, i + 1, base_indent, Append(items, TableEntry[ls[i + 1]].item),
                   is_dict \/ TableEntry[ls[i + 1]].keyed, py)

TableLoop(ls, i, base_indent, items, is_dict, py) ==
    IF i >= Len(ls)
    THEN [next |-> i, py |-> py \o TableEmit(base_indent, items, is_dict)]
    ELSE TableLine(ls, i, base_indent, items, is_dict, py, Strip(ls[i + 1]))

parse_table(ls, start, base_indent) == TableLoop(ls, start, base_indent, <<>>, FALSE, <<>>)

(* ---------------------------------------------------------------------- *)
(* parse_block                                                             *)
(* ---------------------------------------------------------------------- *)
\* the label_map after the label handler has run for each name, the output
\* holding n lines at that time
RECURSIVE BindLabels(_, _, _)
BindLabels(map, names, n) ==
    IF names = <<>> THEN map
    ELSE BindLabels([k \in DOMAIN map \cup {names[1]} |-> IF k = names[1] THEN n ELSE map[k]],
                    Tail(names), n)

\* goto_targets after the goto handler has run for each name
GotoPairs(names, at) == [k \in 1..Len(names) |-> <<at, names[k]>>]

\* the body statement at index i, rewritten to rep, is appended
BlockAppend(acc, i, indent, cur, base, rep) ==
    [acc EXCEPT
        !.py = Append(acc.py, get_indent(indent) \o RStrip(rep.code) \o NL),
        !.src = Append(acc.src, i),
        !.gg = acc.gg \cup rep.gg,
        !.gotos = acc.gotos \o GotoPairs(rep.gotos, cur),
        !.label_map = BindLabels(acc.label_map, rep.labels, base + Len(acc.py))]

\* the closing keyword at index i: the frame is popped when the top of the
\* stack has the type of the block
BlockClose(acc, i, structure_type) ==
    IF acc.stack # <<>> /\ acc.stack[Len(acc.stack)].type = structure_type
    THEN [acc EXCEPT !.next = i + 1,
                     !.stack = SubSeq(acc.stack, 1, Len(acc.stack) - 1),
                     !.popped = acc.popped + 1]
    ELSE [acc EXCEPT !.next = i + 1]

\* LuaEndToPy.parse_block(start, indent, end_kw, structure_type): the loop
\* from index i on.  acc carries what the loop has changed so far: the
\* lines appended to py_lines (py) and the source index of each (src), the
\* stack, the additions to gg_functions and goto_targets, the label_map,
\* and the number of frames it popped.  cur is self.current_line (the line
\* of the `function` header) and base is len(self.py_lines) on entry.
RECURSIVE parse_block_loop(_, _, _, _, _, _, _, _, _)
parse_block_loop(ls, i, start, indent, end_kw, structure_type, cur, base, acc) ==
    IF i >= Len(ls)
    THEN [acc EXCEPT !.next = i,
                     !.warnings = <<ExpectedWarning(end_kw, structure_type, start)>>]
    ELSE IF Strip(ls[i + 1]) = end_kw /\ Leading(ls[i + 1]) <= indent - 4
    THEN BlockClose(acc, i, structure_type)
    ELSE parse_block_loop(ls, i + 1, start, indent, end_kw, structure_type, cur, base,
                          BlockAppend(acc, i, indent, cur, base, Rewritten[ls[i + 1]]))

parse_block(ls, start, indent, end_kw, structure_type, cur, base, stk, labels) ==
    parse_block_loop(ls, start, start, indent, end_kw, structure_type, cur, base,
        [next |-> start, py |-> <<>>, src |-> <<>>, stack |-> stk, gg |-> {},
         gotos |-> <<>>, label_map |-> labels, popped |-> 0, warnings |-> <<>>])

(* ---------------------------------------------------------------------- *)
(* The state of one LuaEndToPy instance during convert()                   *)
(* ---------------------------------------------------------------------- *)
VARIABLES
    lines,         \* self.lines: the input, a sequence of texts
    current_line,  \* self.current_line: the 0-based line cursor
    py_lines,      \* self.py_lines: the emitted lines, each ending in "\n"
    stack,         \* self.stack: the open constructs, top last
    warnings,      \* self.warnings: the diagnostics
    gg_functions,  \* self.gg_functions
    imports,       \* self.imports
    label_map,     \* self.label_map: label name -> len(py_lines) at its marker
    goto_targets,  \* self.goto_targets: (current_line, label) pairs
    pc,            \* "loop": in the main loop; "done": convert() has returned;
                   \* "error": convert() has raised
    result,        \* the value convert() returned: its three parts
    ret,           \* the last call of extract_multiline or parse_table: its
                   \* arguments and what it returned
    src_of,        \* history: for each emitted line, the index of the source
                   \* line being handled when it was appended
    pushed,        \* history: the number of frames pushed so far
    popped,        \* history: the number of frames popped by a closer
    previous       \* history: what the calls of convert() made earlier on
                   \* this instance left: the result, len(warnings), imports

vars == <<lines, current_line, py_lines, stack, warnings, gg_functions, imports,
          label_map, goto_targets, pc, result, ret, src_of, pushed, popped, previous>>

NoRet == [op |-> "none"]
NoResult == [returned |-> FALSE]
EmptyMap == [k \in {} |-> 0]

\* LuaEndToPy.__init__ followed by the assignment of self.lines, at the
\* entry of convert() (py_lines, stack and current_line as convert resets them)
InitWith(inputs) ==
    /\ lines \in inputs
    /\ current_line = 0
    /\ py_lines = <<>>
    /\ stack = <<>>
    /\ warnings = <<>>
    /\ gg_functions = {}
    /\ imports = {}
    /\ label_map = EmptyMap
    /\ goto_targets = <<>>
    /\ pc = "loop"
    /\ result = NoResult
    /\ ret = NoRet
    /\ src_of = <<>>
    /\ pushed = 0
    /\ popped = 0
    /\ previous = <<>>

Init == InitWith(SeqsUpTo(Catalogue, MaxLines))
InitRewrite == InitWith(SeqsUpTo(RewriteCatalogue, MaxLines))
InitLit == InitWith(SeqsUpTo(LitCatalogue, MaxLitLines))
InitTable == InitWith({<<<<"t"," ","="," ","{">>>> \o body : body \in SeqsUpTo(TableCatalogue, MaxTableLines)})
InitExample == InitWith(SeqsUpTo(ExampleCatalogue, MaxExampleLines))
InitOutput == InitWith(SeqsUpTo(OutputCatalogue, MaxOutputLines))
InitFair == InitWith(SeqsUpTo(Catalogue \cup LitCatalogue, MaxFairLines))
InitFor ==
    InitWith({<<ForLine(a, b, c), <<"e","n","d">>>> :
                a \in -MaxInt..MaxInt, b \in -MaxInt..MaxInt, c \in -MaxStep..MaxStep})

(* ---------------------------------------------------------------------- *)
(* convert(): the dispatcher                                               *)
(* ---------------------------------------------------------------------- *)
Top(stk) == stk[Len(stk)]
Pop(stk) == SubSeq(stk, 1, Len(stk) - 1)

\* the tests of the main loop that depend on the line alone, in the order
\* of convert(): the name of the first one that holds.  The branches that
\* also test the stack are told apart in Branch.
Shape(line) ==
    LET stripped == Strip(line)
    IN [blank         |-> stripped = <<>>,
        comment_block |-> StartsWith(stripped, <<"-","-","[","[">>),
        string_block  |-> StartsWith(stripped, <<"[","[">>) /\ ~StartsWith(stripped, <<"-","-","[","[">>),
        comment       |-> StartsWith(stripped, <<"-","-">>),
        table         |-> table_match(line).ok,
        function      |-> func_match(line).ok,
        if            |-> if_match(line).ok,
        elseif        |-> elif_match(line).ok,
        else          |-> stripped = <<"e","l","s","e">>,
        end           |-> stripped = <<"e","n","d">>,
        while         |-> while_match(line).ok,
        for_num       |-> for_num_match(line).ok,
        for_gen       |-> for_gen_match(line).ok,
        repeat        |-> stripped = <<"r","e","p","e","a","t">>,
        until         |-> until_match(line).ok,
        leading       |-> Leading(line)]

\* Shape, tabulated over the input lines
ShapeOf == [line \in InputLines |-> Shape(line)]

\* the groups of the two `for` matchers, tabulated over the input lines
LoopMatch ==
    [line \in InputLines |-> [for_num |-> for_num_match(line), for_gen |-> for_gen_match(line)]]

\* a wrong variant of EndCloses, closing at any indentation up to the opening
\* column: C3_EndClosesAtOpeningColumn tells it from the code
EndClosesAtOrBelow(leading, frame) == leading <= frame.indent

\* the indentation test of the `end` branch: `self.stack[-1]['indent'] == leading`
EndCloses(leading, frame) == frame.indent = leading

\* the branch of the main loop that handles `line` under the stack stk:
\* the chain of tests of convert(), in its order
BranchOf(s, stk) ==
       IF s.blank THEN "blank"
       ELSE IF s.comment_block THEN "comment_block"
       ELSE IF s.string_block THEN "string_block"
       ELSE IF s.comment THEN "comment"
       ELSE IF s.table THEN "table"
       ELSE IF s.function THEN "function"
       ELSE IF s.if THEN "if"
       ELSE IF s.elseif /\ stk # <<>> /\ Top(stk).type = "if" THEN "elseif"
       ELSE IF s.else /\ stk # <<>> /\ Top(stk).type = "if" THEN "else"
       ELSE IF s.end /\ stk # <<>> /\ EndCloses(s.leading, Top(stk)) THEN "end"
       ELSE IF s.while THEN "while"
       ELSE IF s.for_num THEN "for_num"
       ELSE IF s.for_gen THEN "for_gen"
       ELSE IF s.repeat THEN "repeat"
       ELSE IF s.until /\ stk # <<>> /\ Top(stk).type = "repeat" THEN "until"
       ELSE "plain"
Branch(line, stk) == BranchOf(ShapeOf[line], stk)

\* the line under the cursor
Line == lines[current_line + 1]
\* the main loop is at a line that `branch` handles
At(branch) ==
    /\ pc = "loop"
    /\ current_line < Len(lines)
    /\ Branch(Line, stack) = branch

\* py_lines.append(text) for each text, all on behalf of the current line
Emit(texts) ==
    /\ py_lines' = py_lines \o texts
    /\ src_of' = src_of \o [k \in 1..Len(texts) |-> current_line]

\* the construct frames: function and if frames record their line, the
\* loop frames do not
FrameWithLine(type, indent, line) == [type |-> type, indent |-> indent, line |-> line]
Frame(type, indent) == [type |-> type, indent |-> indent]

Push(frame) == stack' = Append(stack, frame) /\ pushed' = pushed + 1

Rest == <<lines, previous, gg_functions, imports, label_map, goto_targets, result>>

\* `if not stripped`
Blank ==
    /\ At("blank")
    /\ Emit(<<NL>>)
    /\ current_line' = current_line + 1
    /\ UNCHANGED <<Rest, pc, stack, warnings, ret, pushed, popped>>

\* the two literal branches: is_comment tells which
ExtractLiteral(is_comment) ==
    \E r \in {extract_multiline(lines, current_line, is_comment)} :
       /\ Emit(<<(IF is_comment THEN <<"#"," ","\"","\"","\"">> ELSE <<"\"","\"","\"">>)
                    \o r.content \o <<"\"","\"","\"">> \o NL>>)
       /\ current_line' = r.next
       /\ warnings' = warnings \o r.warnings
       /\ ret' = [op |-> "extract_multiline", start |-> current_line,
                  is_comment |-> is_comment, content |-> r.content, next |-> r.next,
                  warnings |-> r.warnings]
       /\ UNCHANGED <<Rest, pc, stack, pushed, popped>>

\* `if stripped.startswith('--[[')`
CommentBlock == At("comment_block") /\ ExtractLiteral(TRUE)

\* `if stripped.startswith('[[') and not stripped.startswith('--[[')`
StringBlock == At("string_block") /\ ExtractLiteral(FALSE)

\* `if stripped.startswith('--')`: re.sub(r'^--', '#', line)
LineComment ==
    /\ At("comment")
    /\ Emit(<<RStrip(IF StartsWith(Line, <<"-","-">>) THEN <<"#">> \o Drop(Line, 3) ELSE Line) \o NL>>)
    /\ current_line' = current_line + 1
    /\ UNCHANGED <<Rest, pc, stack, warnings, ret, pushed, popped>>

\* `if re.match(r'^\s*[\w_]+\s*=\s*\{', line)`
TableAssign ==
    /\ At("table")
    /\ \E m \in {table_match(Line)} :
       \E r \in {parse_table(lines, current_line + 1, Leading(Line))} :
          /\ Emit(<<m.indent_str \o m.var \o <<" ","="," ">> \o NL>> \o r.py)
          /\ current_line' = r.next
          /\ ret' = [op |-> "parse_table", start |-> current_line + 1,
                     base_indent |-> Leading(Line), py |-> r.py, next |-> r.next]
    /\ UNCHANGED <<Rest, pc, stack, warnings, pushed, popped>>

\* str.replace / re.sub of a literal: every occurrence of old, left to right
RECURSIVE ReplaceLit(_, _, _)
ReplaceLit(s, old, new) ==
    IF ~Contains(s, old) THEN s
    ELSE SplitHead(s, old) \o new \o ReplaceLit(SplitTail(s, old), old, new)

\* `if func_match`: the header, the frame, then parse_block over the body
FunctionHeader(m) ==
    m.indent_str \o <<"d","e","f"," ">> \o m.name \o <<"(">>
        \o ReplaceLit(m.args, <<".",".",".">>, <<"*","a","r","g","s">>) \o <<")",":">> \o NL

FunctionDef ==
    /\ At("function")
    /\ \E b \in {parse_block(lines, current_line + 1, Leading(Line) + 4, <<"e","n","d">>, "function",
                            current_line, Len(py_lines) + 1,
                            Append(stack, FrameWithLine("function", Leading(Line), current_line)),
                            label_map)} :
          /\ py_lines' = py_lines \o <<FunctionHeader(func_match(Line))>> \o b.py
          /\ src_of' = Append(src_of, current_line) \o b.src
          /\ stack' = b.stack
          /\ pushed' = pushed + 1
          /\ popped' = popped + b.popped
          /\ current_line' = b.next
          /\ warnings' = warnings \o b.warnings
          /\ gg_functions' = gg_functions \cup b.gg
          /\ goto_targets' = goto_targets \o b.gotos
          /\ label_map' = b.label_map
    /\ UNCHANGED <<lines, previous, imports, result, pc, ret>>

\* `if if_match`
IfThen ==
    /\ At("if")
    /\ \E m \in {if_match(Line)} : Emit(<<m.indent_str \o <<"i","f"," ">> \o m.cond \o <<":">> \o NL>>)
    /\ Push(FrameWithLine("if", Leading(Line), current_line))
    /\ current_line' = current_line + 1
    /\ UNCHANGED <<Rest, pc, warnings, ret, popped>>

\* `if elif_match and self.stack and self.stack[-1]['type'] == 'if'`
ElseIf ==
    /\ At("elseif")
    /\ \E m \in {elif_match(Line)} : Emit(<<m.indent_str \o <<"e","l","i","f"," ">> \o m.cond \o <<":">> \o NL>>)
    /\ current_line' = current_line + 1
    /\ UNCHANGED <<Rest, pc, stack, warnings, ret, pushed, popped>>

\* `if stripped == 'else' and self.stack and self.stack[-1]['type'] == 'if'`
Else ==
    /\ At("else")
    /\ Emit(<<get_indent(Leading(Line)) \o <<"e","l","s","e",":">> \o NL>>)
    /\ current_line' = current_line + 1
    /\ UNCHANGED <<Rest, pc, stack, warnings, ret, pushed, popped>>

\* `if stripped == 'end' and self.stack and self.stack[-1]['indent'] == leading`
End ==
    /\ At("end")
    /\ stack' = Pop(stack)
    /\ popped' = popped + 1
    /\ current_line' = current_line + 1
    /\ UNCHANGED <<Rest, pc, py_lines, src_of, warnings, ret, pushed>>

\* `if while_match`
While ==
    /\ At("while")
    /\ \E m \in {while_match(Line)} : Emit(<<m.indent_str \o <<"w","h","i","l","e"," ">> \o m.cond \o <<":">> \o NL>>)
    /\ Push(Frame("while", Leading(Line)))
    /\ current_line' = current_line + 1
    /\ UNCHANGED <<Rest, pc, warnings, ret, popped>>

\* the header emitted for a numeric for loop
ForNumHeader(m) ==
    m.indent_str \o <<"f","o","r"," ">> \o m.var \o <<" ","i","n"," ","r","a","n","g","e","(","i","n","t","(">> \o m.start \o <<")",","," ","i","n","t","(">>
        \o m.stop \o <<")"," ","+"," ","1",","," ","i","n","t","(">> \o (IF m.step = <<>> THEN <<"1">> ELSE m.step) \o <<")",")",":">> \o NL

\* `if for_num_match`
ForNum ==
    /\ At("for_num")
    /\ \E m \in {LoopMatch[Line].for_num} : Emit(<<ForNumHeader(m)>>)
    /\ Push(Frame("for", Leading(Line)))
    /\ current_line' = current_line + 1
    /\ UNCHANGED <<Rest, pc, warnings, ret, popped>>

\* `if for_gen_match`
ForGen ==
    /\ At("for_gen")
    /\ \E m \in {LoopMatch[Line].for_gen} :
          Emit(<<m.indent_str \o <<"f","o","r"," ">> \o m.vars_part \o <<" ","i","n"," ">> \o m.iter_part \o <<":">> \o NL>>)
    /\ Push(Frame("for", Leading(Line)))
    /\ current_line' = current_line + 1
    /\ UNCHANGED <<Rest, pc, warnings, ret, popped>>

\* `if stripped == 'repeat'`
Repeat ==
    /\ At("repeat")
    /\ Emit(<<get_indent(Leading(Line)) \o <<"w","h","i","l","e"," ","T","r","u","e",":">> \o NL>>)
    /\ Push(Frame("repeat", Leading(Line)))
    /\ current_line' = current_line + 1
    /\ UNCHANGED <<Rest, pc, warnings, ret, popped>>

\* `if until_match and self.stack and self.stack[-1]['type'] == 'repeat'`
Until ==
    /\ At("until")
    /\ \E m \in {until_match(Line)} :
          Emit(<<m.indent_str \o <<" "," "," "," ","i","f"," ","n","o","t"," ","(">> \o m.cond \o <<")",":"," ","b","r","e","a","k">> \o NL>>)
    /\ stack' = Pop(stack)
    /\ popped' = popped + 1
    /\ current_line' = current_line + 1
    /\ UNCHANGED <<Rest, pc, warnings, ret, pushed>>

\* s.split(',') with every part stripped
RECURSIVE SplitCommas(_)
SplitCommas(s) ==
    IF Contains(s, <<",">>)
    THEN <<Strip(SplitHead(s, <<",">>))>> \o SplitCommas(SplitTail(s, <<",">>))
    ELSE <<Strip(s)>>

\* a wrong variant of StripLocal that keeps the keyword: C11_WorkedExample
\* tells it from the code
StripLocalKept(line) == line

\* re.sub(r'^(\s*)local\s+', r'\1', line) when stripped starts with 'local '
StripLocal(line) ==
    IF StartsWith(Strip(line), <<"l","o","c","a","l"," ">>)
    THEN Take(line, Leading(line)) \o Drop(line, SkipSpace(line, Leading(line) + 6))
    ELSE line

\* the rewrite of `return a, b` into `return (a, b)`; stripped is the
\* stripped text of the source line
GroupReturnOf(line, stripped, returns) ==
    IF Len(returns) > 1
    THEN ReplaceLit(line, stripped, <<"r","e","t","u","r","n"," ","(">> \o Join(returns, <<","," ">>) \o <<")">>)
    ELSE line
GroupReturn(line, stripped) ==
    IF StartsWith(stripped, <<"r","e","t","u","r","n"," ">>)
    THEN GroupReturnOf(line, stripped, SplitCommas(Drop(stripped, 8)))
    ELSE line

\* the text of a plain statement as it is handed to apply_replacements
PlainText(line) == GroupReturn(StripLocal(line), Strip(line))

\* apply_replacements over the plain statements, tabulated over the input lines
PlainRewritten == [line \in InputLines |-> apply_replacements(PlainText(line))]

\* the plain statement: no branch above took the line
Plain ==
    /\ At("plain")
    /\ \E rep \in {PlainRewritten[Line]} :
          /\ Emit(<<RStrip(rep.code) \o NL>>)
          /\ gg_functions' = gg_functions \cup rep.gg
          /\ goto_targets' = goto_targets \o GotoPairs(rep.gotos, current_line)
          /\ label_map' = BindLabels(label_map, rep.labels, Len(py_lines))
    /\ current_line' = current_line + 1
    /\ UNCHANGED <<lines, previous, imports, result, pc, stack, warnings, ret, pushed, popped>>

(* ---------------------------------------------------------------------- *)
(* convert(): after the main loop                                          *)
(* ---------------------------------------------------------------------- *)
\* any(x in py_code for x in needles)
AnyIn(py_code, needles) == \E x \in needles : Contains(py_code, x)

\* the import directives convert() adds for the emitted text py_code and the
\* recorded gg functions (the shim definitions are named by their heads)
InferredImports(py_code, gg) ==
    (IF AnyIn(py_code, {<<"t","i","m","e",".">>, <<"s","l","e","e","p">>, <<"s","t","r","f","t","i","m","e">>, <<"m","k","t","i","m","e">>, <<"p","e","r","f","_","c","o","u","n","t","e","r">>})
     THEN {"import time"} ELSE {})
    \cup (IF Contains(py_code, <<"r","a","n","d","o","m",".">>) THEN {"import random"} ELSE {})
    \cup (IF Contains(py_code, <<"t","h","r","e","a","d","i","n","g",".">>) THEN {"import threading"} ELSE {})
    \cup (IF AnyIn(py_code, {<<"m","a","t","h",".">>, <<"f","l","o","o","r">>, <<"s","i","n">>, <<"p","i">>, <<"r","a","d","i","a","n","s">>, <<"i","n","f">>})
          THEN {"import math"} ELSE {})
    \cup (IF Contains(py_code, <<"r","e",".">>) THEN {"import re"} ELSE {})
    \cup (IF Contains(py_code, <<"g","c",".">>) THEN {"import gc"} ELSE {})
    \cup (IF Contains(py_code, <<"t","r","a","c","e","b","a","c","k",".">>) THEN {"import traceback"} ELSE {})
    \cup (IF AnyIn(py_code, {<<"f","\"">>, <<"{">>, <<"D","i","c","t">>, <<"L","i","s","t">>, <<"s","t","r","u","c","t","_","t","i","m","e">>, <<"G","e","n","e","r","a","t","o","r">>})
          THEN {"from typing import Dict, List, Any, Tuple, Generator"} ELSE {})
    \cup (IF AnyIn(py_code, {<<"_","_","p","c","a","l","l","_","w","r","a","p","p","e","r">>, <<"_","_","a","s","s","e","r","t","_","w","r","a","p","p","e","r">>, <<"_","_","x","p","c","a","l","l","_","w","r","a","p","p","e","r">>})
          THEN {"def __pcall_wrapper", "def __xpcall_wrapper", "def __assert_wrapper",
                "def __getupvalue", "def __setupvalue", "def __yield", "def __coroutine_wrap"}
          ELSE {})
    \cup (IF gg # {} THEN {"import gg"} ELSE {})

\* every directive convert() can add, in the order sorted() gives them
SortedDirectives ==
    <<"def __assert_wrapper", "def __coroutine_wrap", "def __getupvalue",
      "def __pcall_wrapper", "def __setupvalue", "def __xpcall_wrapper", "def __yield",
      "from typing import Dict, List, Any, Tuple, Generator",
      "import gc", "import gg", "import math", "import random", "import re",
      "import threading", "import time", "import traceback">>

\* LuaEndToPy.add_import applied to each directive of `more`
add_import(imps, more) == imps \cup more

\* sorted(self.imports), the lines of `header`
Header(imps) == LET Wanted(d) == d \in imps IN SelectSeq(SortedDirectives, Wanted)

\* the type of a frame as text
TypeText(type) ==
    CASE type = "function" -> <<"f","u","n","c","t","i","o","n">>
      [] type = "if"       -> <<"i","f">>
      [] type = "while"    -> <<"w","h","i","l","e">>
      [] type = "for"      -> <<"f","o","r">>
      [] type = "repeat"   -> <<"r","e","p","e","a","t">>

\* the text of a diagnostic.  The Cyrillic letters of the source are written
\* in Latin transliteration, word for word; the other characters are kept.
WarningText(w) ==
    CASE w.kind = "literal" ->
            <<"M","n","o","g","o","s","t","r","o","c","h","n","y","j"," ">> \o (IF w.is_comment THEN <<"k","o","m","m","e","n","t","a","r","i","j">> ELSE <<"s","t","r","o","k","a">>)
               \o <<" ","n","e"," ","z","a","k","r","y","t"," ","(","s","t","r","o","k","a"," ">> \o IntText(w.line) \o <<")">>
      [] w.kind = "expected" ->
            <<"O","z","h","i","d","a","l","s","y","a"," ">> \o w.end_kw \o <<" ","d","l","y","a"," ">> \o TypeText(w.type)
               \o <<" ","(","s","t","r","o","k","a"," ">> \o IntText(w.line) \o <<")">>
      [] w.kind = "unclosed" ->
            <<"N","e"," ","z","a","k","r","y","t","a"," ","s","t","r","u","k","t","u","r","a"," ">> \o TypeText(w.type)
               \o <<" ","(","s","t","r","o","k","a"," ">> \o IntText(w.line) \o <<")">>

\* the heading of the diagnostics block, '# Предупреждения:' transliterated
Heading == <<"#"," ","P","r","e","d","u","p","r","e","z","h","d","e","n","i","y","a",":">>

\* warnings_block: '\n'.join([heading] + self.warnings + ['\n']) when there
\* is a warning, '' otherwise
warnings_block(ws) ==
    IF ws = <<>> THEN <<>>
    ELSE Join(<<Heading>> \o [k \in 1..Len(ws) |-> WarningText(ws[k])] \o <<NL>>, NL)

\* the text of an import directive
DirectiveText(d) ==
    CASE d = "def __assert_wrapper" ->
            <<"d","e","f"," ","_","_","a","s","s","e","r","t","_","w","r","a","p","p","e","r","(","c","o","n","d",")",":"," ","i","f"," ","n","o","t"," ","c","o","n","d",":"," ","r","a","i","s","e"," ","A","s","s","e","r","t","i","o","n","E","r","r","o","r","(","c","o","n","d",")">>
      [] d = "def __coroutine_wrap" ->
            <<"d","e","f"," ","_","_","c","o","r","o","u","t","i","n","e","_","w","r","a","p","(","f",")",":"," ","d","e","f"," ","w","r","a","p","p","e","r","(","*","a",","," ","*","*","k",")",":"," ","r","e","t","u","r","n"," ","f","(","*","a",","," ","*","*","k",")",";"," ","y","i","e","l","d",";"," ","r","e","t","u","r","n"," ","w","r","a","p","p","e","r">>
      [] d = "def __getupvalue" ->
            <<"d","e","f"," ","_","_","g","e","t","u","p","v","a","l","u","e","(","f",","," ","i",")",":"," ","r","e","t","u","r","n"," ","f",".","_","_","c","l","o","s","u","r","e","_","_","[","i","]",".","c","e","l","l","_","c","o","n","t","e","n","t","s"," ","i","f"," ","f",".","_","_","c","l","o","s","u","r","e","_","_"," ","a","n","d"," ","i"," ","<"," ","l","e","n","(","f",".","_","_","c","l","o","s","u","r","e","_","_",")"," ","e","l","s","e"," ","N","o","n","e">>
      [] d = "def __pcall_wrapper" ->
            <<"d","e","f"," ","_","_","p","c","a","l","l","_","w","r","a","p","p","e","r","(","f","u","n","c",")",":"," ","t","r","y",":"," ","r","e","t","u","r","n"," ","f","u","n","c","(",")"," ","e","x","c","e","p","t"," ","E","x","c","e","p","t","i","o","n"," ","a","s"," ","e",":"," ","r","e","t","u","r","n"," ","F","a","l","s","e",","," ","s","t","r","(","e",")">>
      [] d = "def __setupvalue" ->
            <<"d","e","f"," ","_","_","s","e","t","u","p","v","a","l","u","e","(","f",","," ","i",","," ","v",")",":"," ","i","f"," ","f",".","_","_","c","l","o","s","u","r","e","_","_"," ","a","n","d"," ","i"," ","<"," ","l","e","n","(","f",".","_","_","c","l","o","s","u","r","e","_","_",")",":"," ","f",".","_","_","c","l","o","s","u","r","e","_","_","[","i","]",".","c","e","l","l","_","c","o","n","t","e","n","t","s"," ","="," ","v">>
      [] d = "def __xpcall_wrapper" ->
            <<"d","e","f"," ","_","_","x","p","c","a","l","l","_","w","r","a","p","p","e","r","(","f","u","n","c",","," ","e","r","r",")",":"," ","t","r","y",":"," ","r","e","t","u","r","n"," ","f","u","n","c","(",")"," ","e","x","c","e","p","t"," ","E","x","c","e","p","t","i","o","n"," ","a","s"," ","e",":"," ","e","r","r","(","e",")",";"," ","r","e","t","u","r","n"," ","F","a","l","s","e">>
      [] d = "def __yield" -> <<"d","e","f"," ","_","_","y","i","e","l","d","(","*","a","r","g","s",")",":"," ","r","e","t","u","r","n"," ","a","r","g","s">>
      [] d = "from typing import Dict, List, Any, Tuple, Generator" ->
            <<"f","r","o","m"," ","t","y","p","i","n","g"," ","i","m","p","o","r","t"," ","D","i","c","t",","," ","L","i","s","t",","," ","A","n","y",","," ","T","u","p","l","e",","," ","G","e","n","e","r","a","t","o","r">>
      [] d = "import gc" -> <<"i","m","p","o","r","t"," ","g","c">>
      [] d = "import gg" -> <<"i","m","p","o","r","t"," ","g","g">>
      [] d = "import math" -> <<"i","m","p","o","r","t"," ","m","a","t","h">>
      [] d = "import random" -> <<"i","m","p","o","r","t"," ","r","a","n","d","o","m">>
      [] d = "import re" -> <<"i","m","p","o","r","t"," ","r","e">>
      [] d = "import threading" -> <<"i","m","p","o","r","t"," ","t","h","r","e","a","d","i","n","g">>
      [] d = "import time" -> <<"i","m","p","o","r","t"," ","t","i","m","e">>
      [] d = "import traceback" -> <<"i","m","p","o","r","t"," ","t","r","a","c","e","b","a","c","k">>

\* header: '\n'.join(sorted(self.imports)) + '\n\n' when there is an
\* import, '' otherwise; names is Header(imports)
header(names) ==
    IF names = <<>> THEN <<>>
    ELSE Join([k \in 1..Len(names) |-> DirectiveText(names[k])], NL) \o NL \o NL

\* a wrong variant of ReturnedText that puts the imports first:
\* C13_ReturnedText tells it from the code
ReturnedTextImportsFirst(block, head, py_code) == head \o block \o py_code

\* `return warnings_block + header + py_code`
ReturnedText(block, head, py_code) == block \o head \o py_code

\* the frames of the stack that have no 'line' entry
Lineless(stk) == {k \in 1..Len(stk) : "line" \notin DOMAIN stk[k]}

\* the loop over the frames left open, then the imports and the returned
\* text: warnings_block, header and py_code in this order
Return ==
    /\ pc = "loop"
    /\ current_line >= Len(lines)
    /\ Lineless(stack) = {}
    /\ \E ws \in {warnings \o [k \in 1..Len(stack) |-> UnclosedWarning(stack[k])]} :
       \E py_code \in {Flatten(py_lines)} :
       \E imps \in {add_import(imports, InferredImports(py_code, gg_functions))} :
          /\ warnings' = ws
          /\ imports' = imps
          /\ result' = [returned |-> TRUE,
                        warnings_block |-> IF ws # <<>> THEN <<"heading">> \o ws ELSE <<>>,
                        header |-> Header(imps),
                        py_code |-> py_code,
                        text |-> ReturnedText(warnings_block(ws), header(Header(imps)), py_code)]
    /\ pc' = "done"
    /\ UNCHANGED <<lines, previous, current_line, py_lines, stack, gg_functions, label_map,
                   goto_targets, ret, src_of, pushed, popped>>

\* the same loop when an open frame has no 'line' entry: s['line'] raises
\* KeyError once the frames before it have been reported
RaiseKeyError ==
    /\ pc = "loop"
    /\ current_line >= Len(lines)
    /\ Lineless(stack) # {}
    /\ warnings' = warnings \o [k \in 1..(Min(Lineless(stack)) - 1) |-> UnclosedWarning(stack[k])]
    /\ pc' = "error"
    /\ UNCHANGED <<lines, previous, current_line, py_lines, stack, gg_functions, imports, label_map,
                   goto_targets, result, ret, src_of, pushed, popped>>

\* a further call of convert() on the same instance once the call before it
\* has returned or raised: py_lines, stack and current_line are reset, every
\* other attribute is left as the earlier call left it
Reconvert ==
    /\ pc \in {"done", "error"}
    /\ Len(previous) + 1 < MaxRuns
    /\ previous' = Append(previous, [result |-> result, warnings |-> Len(warnings),
                                     imports |-> imports])
    /\ py_lines' = <<>>
    /\ stack' = <<>>
    /\ current_line' = 0
    /\ pc' = "loop"
    /\ result' = NoResult
    /\ ret' = NoRet
    /\ src_of' = <<>>
    /\ pushed' = 0
    /\ popped' = 0
    /\ UNCHANGED <<lines, warnings, imports, gg_functions, label_map, goto_targets>>

Next ==
    \/ Blank
    \/ CommentBlock
    \/ StringBlock
    \/ LineComment
    \/ TableAssign
    \/ FunctionDef
    \/ IfThen
    \/ ElseIf
    \/ Else
    \/ End
    \/ While
    \/ ForNum
    \/ ForGen
    \/ Repeat
    \/ Until
    \/ Plain
    \/ Return
    \/ RaiseKeyError

\* convert() over every input of at most MaxLines lines of Catalogue
Spec == Init /\ [][Next]_vars

\* the statements of the rewrite tables, alone and in a function body
NextRewrite == FunctionDef \/ Plain \/ Return
SpecRewrite == InitRewrite /\ [][NextRewrite]_vars

\* the literal extractor
NextLit == CommentBlock \/ StringBlock \/ Plain \/ Return
SpecLit == InitLit /\ [][NextLit]_vars

\* the table parser
NextTable == TableAssign \/ Plain \/ Return
SpecTable == InitTable /\ [][NextTable]_vars

\* the numeric for loop, closed by its `end`
NextFor == ForNum \/ End \/ Return
SpecFor == InitFor /\ [][NextFor]_vars

\* the worked example and every other input over its four lines
NextExample == IfThen \/ End \/ Plain \/ Return
SpecExample == InitExample /\ [][NextExample]_vars

\* a table, a gg call and an unterminated literal: the inputs that put a
\* diagnostics block and import directives in front of the body
NextOutput == TableAssign \/ StringBlock \/ Plain \/ Return
SpecOutput == InitOutput /\ [][NextOutput]_vars

\* the same inputs converted up to MaxRuns times in succession by one instance
SpecTwice == InitOutput /\ [][NextOutput \/ Reconvert]_vars

\* convert() runs on without suspension: its loops take their next step
\* whenever there is one
SpecFair == InitFair /\ [][Next]_vars /\ WF_vars(Next)

(* ---------------------------------------------------------------------- *)
(* The properties                                                          *)
(* ---------------------------------------------------------------------- *)
\* the diagnostics about a construct left open: parse_block's "expected
\* end" and convert()'s "structure not closed"
ConstructDiagnostics(ws) == {k \in 1..Len(ws) : ws[k].kind \in {"expected", "unclosed"}}

\* C1: once convert() has returned, the frames pushed are as many as the
\* unterminated-construct diagnostics plus the frames popped by a closer,
\* and the stack is empty exactly when no such diagnostic was appended.
\* The code breaks it: a function left open is reported twice.
C1_FramesAccounted ==
    pc = "done" =>
       /\ pushed = Cardinality(ConstructDiagnostics(warnings)) + popped
       /\ (stack = <<>>) <=> (ConstructDiagnostics(warnings) = {})

\* C2: convert() never ends in an exception, whatever constructs are left
\* open at the end of the input.  The code breaks it: a while, for or repeat
\* frame left open has no 'line' entry and the final loop raises KeyError.
C2_NoFatalError == pc # "error"

\* the main loop is at a bare `end` line with a construct open
AtBareEnd ==
    /\ pc = "loop"
    /\ current_line < Len(lines)
    /\ Strip(Line) = <<"e","n","d">>
    /\ stack # <<>>

\* the main loop is at a function header
AtFunction ==
    /\ pc = "loop"
    /\ current_line < Len(lines)
    /\ func_match(Line).ok

\* the lines after the function header under the cursor that are a bare
\* `end` at an indentation up to the header's
ClosingEnds ==
    {i \in (current_line + 2)..Len(lines) :
        Strip(lines[i]) = <<"e","n","d">> /\ Leading(lines[i]) <= Leading(Line)}

\* C3 as claimed: a bare `end` at an indentation up to the opening column of
\* the top construct pops it, and a deeper one does not.  The main loop
\* breaks it: an `end` left of the opening column pops nothing.
C3_EndClosesAtOrBelow ==
    [][AtBareEnd => ((stack' = Pop(stack)) <=> (Leading(Line) <= Top(stack).indent))]_vars

\* C3 as the code has it: in the main loop a bare `end` pops the top
\* construct, whatever its kind, exactly when its indentation equals the
\* opening column, and a function frame is closed by parse_block exactly
\* when a bare `end` at an indentation up to the function's column follows;
\* a deeper `end` never pops.
C3_EndClosesAtOpeningColumn ==
    [][/\ AtBareEnd => /\ (stack' = Pop(stack)) <=> (Leading(Line) = Top(stack).indent)
                       /\ stack' \in {stack, Pop(stack)}
       /\ AtFunction => /\ (stack' = stack) <=> (ClosingEnds # {})
                        /\ (stack' # stack) =>
                              /\ ClosingEnds = {}
                              /\ Len(stack') = Len(stack) + 1
                              /\ Top(stack').type = "function"
                        /\ (ClosingEnds # {}) => current_line' = Min(ClosingEnds)]_vars

\* an `if` opened at column 2 has been closed by the `end` at column 2 that
\* follows it
C3_Witness ==
    /\ Len(lines) >= 2
    /\ if_match(lines[1]).ok /\ Leading(lines[1]) = 2
    /\ Strip(lines[2]) = <<"e","n","d">> /\ Leading(lines[2]) = 2
    /\ current_line = 2
    /\ pushed = 1 /\ popped = 1 /\ stack = <<>>

\* the text of a literal's opener line after its opening marker
AfterOpener(line, is_comment) ==
    Drop(line, Find(line, OpenerOf(is_comment)) + Len(OpenerOf(is_comment)))

\* the closing marker stands on the opener line, after the opening marker
ClosedOnOpenerLine(line, is_comment) == Contains(AfterOpener(line, is_comment), closer)

\* the lines after the opener of the last extraction that hold a closing
\* marker, and those that open a literal again (1-based)
CloserLines == {i \in (ret.start + 2)..Len(lines) : Contains(lines[i], closer)}
OpenerLines ==
    {i \in (ret.start + 2)..Len(lines) : StartsWith(Strip(lines[i]), OpenerOf(ret.is_comment))}

\* C4: extract_multiline on a closed literal.  Closed on the opener line, it
\* returns the text between the markers and the index after the opener;
\* closed on a later line (no literal opened in between), it returns the
\* index after the closing line; no diagnostic either way.  The code breaks
\* it: the body of an indented one-line literal is cut from the raw line.
C4_ClosedLiteral ==
    ret.op = "extract_multiline" =>
       /\ ClosedOnOpenerLine(lines[ret.start + 1], ret.is_comment) =>
             /\ ret.content = SplitHead(AfterOpener(lines[ret.start + 1], ret.is_comment), closer)
             /\ ret.next = ret.start + 1
             /\ ret.warnings = <<>>
       /\ (/\ ~ClosedOnOpenerLine(lines[ret.start + 1], ret.is_comment)
           /\ CloserLines # {}
           /\ \A i \in OpenerLines : i > Min(CloserLines)) =>
             /\ ret.next = Min(CloserLines)
             /\ ret.warnings = <<>>

\* the literal warnings of ws that name the line `line`
LiteralWarnings(ws, line) ==
    {k \in 1..Len(ws) : ws[k].kind = "literal" /\ ws[k].line = line}

\* the last call of extract_multiline found no closing marker at all
NoCloser ==
    /\ ~ClosedOnOpenerLine(lines[ret.start + 1], ret.is_comment)
    /\ CloserLines = {}

RECURSIVE NatOf(_)
NatOf(s) ==
    LET d == CHOOSE n \in 0..9 : NatText(n) = <<s[Len(s)]>>
    IN IF Len(s) = 1 THEN d ELSE 10 * NatOf(Take(s, Len(s) - 1)) + d
IntOf(s) == IF s[1] = "-" THEN 0 - NatOf(Tail(s)) ELSE NatOf(s)

\* the three arguments of the range(...) call of an emitted loop header, as
\* Python evaluates them: int(a), int(b) + 1, int(c)
RangeArgs(emitted) ==
    LET r1 == SplitTail(emitted, <<"r","a","n","g","e","(","i","n","t","(">>)
        r2 == SplitTail(r1, <<")",","," ","i","n","t","(">>)
        r3 == SplitTail(r2, <<")"," ","+"," ","1",","," ","i","n","t","(">>)
    IN [start |-> IntOf(SplitHead(r1, <<")">>)),
        stop  |-> IntOf(SplitHead(r2, <<")">>)) + 1,
        step  |-> IntOf(SplitHead(r3, <<")">>))]

\* the steps a loop over the bounded integers can take before it leaves them
Span == 2 * MaxInt + 2

\* the values range(start, stop, step) of Python yields
PyRange(start, stop, step) ==
    {start + k * step : k \in {j \in 0..Span : IF step > 0 THEN start + j * step < stop
                                                ELSE start + j * step > stop}}

\* the values the Lua loop `for v = start, stop, step do` visits
LuaFor(start, stop, step) ==
    {start + k * step : k \in {j \in 0..Span : IF step > 0 THEN start + j * step <= stop
                                                ELSE start + j * step >= stop}}

\* the bounds of the loop header ForLine builds, read back from its text
ForArgs ==
    [line \in {ForLine(a, b, c) : a \in -MaxInt..MaxInt, b \in -MaxInt..MaxInt,
                                  c \in -MaxStep..MaxStep} |->
        CHOOSE t \in (-MaxInt..MaxInt) \X (-MaxInt..MaxInt) \X (-MaxStep..MaxStep) :
            ForLine(t[1], t[2], t[3]) = line]

\* C6: the header emitted for `for v = start, stop[, step] do` iterates over
\* exactly the values the source loop visits, for every start and stop and
\* every step other than zero (1 when none is given).  The code breaks it:
\* with a negative step the emitted range stops at stop + 1 and leaves out
\* stop and its neighbour.
C6_ForVisitsSameValues ==
    (lines[1] \in DOMAIN ForArgs /\ Len(py_lines) >= 1) =>
       \E t \in {ForArgs[lines[1]]} :
       \E r \in {RangeArgs(py_lines[1])} :
          /\ r.step # 0
          /\ PyRange(r.start, r.stop, r.step) = LuaFor(t[1], t[2], IF t[3] = 0 THEN 1 ELSE t[3])

\* the control keywords an ordinary key is not
ControlKeywords == {<<"f","u","n","c","t","i","o","n">>, <<"i","f">>, <<"f","o","r">>, <<"w","h","i","l","e">>, <<"l","o","c","a","l">>, <<"a","n","d">>, <<"o","r">>}

\* an entry of the form `[expr] = value`
BracketKeyed(stripped) ==
    /\ StartsWith(stripped, <<"[">>)
    /\ Find(stripped, <<"]">>) > 2
    /\ StartsWithAt(stripped, <<"=">>, SkipSpace(stripped, Find(stripped, <<"]">>) + 1))

\* an entry of the form `identifier = value`, the identifier no control keyword
IdentifierKeyed(stripped) ==
    /\ SkipWord(stripped, 1) > 1
    /\ StartsWithAt(stripped, <<"=">>, SkipSpace(stripped, SkipWord(stripped, 1)))
    /\ Take(stripped, SkipWord(stripped, 1) - 1) \notin ControlKeywords

\* the entry lines of the table that opens on the first input line: the
\* lines up to its closing brace (1-based)
TableEnd ==
    LET closing == {i \in 2..Len(lines) : Strip(lines[i]) = <<"}">> /\ Leading(lines[i]) = 0}
    IN IF closing = {} THEN Len(lines) + 1 ELSE Min(closing)
EntryLines == 2..(TableEnd - 1)

\* C7: parse_table on a body of plain entries (no nested table) emits a
\* mapping literal when an entry line is keyed, `[expr] = value` or
\* `identifier = value` with an ordinary identifier, and a sequence literal
\* when every entry line is positional.  The code breaks it: an identifier
\* that merely contains a keyword (color holds or) is taken as positional.
C7_TableKind ==
    (/\ ret.op = "parse_table"
     /\ ret.start = 1
     /\ \A i \in EntryLines : ~StartsWith(Strip(lines[i]), <<"{">>) /\ Strip(lines[i]) # <<"}">>) =>
       \E keyed \in {\E i \in EntryLines : \/ BracketKeyed(Strip(lines[i]))
                                           \/ IdentifierKeyed(Strip(lines[i]))} :
          /\ ret.py[1] = (IF keyed THEN <<"{">> ELSE <<"[">>) \o NL
          /\ ret.py[Len(ret.py)] = (IF keyed THEN <<"}">> ELSE <<"]">>) \o NL
          /\ Len(ret.py) = Cardinality(EntryLines) + 2

\* a statement that no control, table or literal rule of the dispatcher
\* takes and no rewrite rule changes
Unruled(line) ==
    /\ \A f \in DOMAIN ShapeOf[line] \ {"leading"} : ~ShapeOf[line][f]
    /\ Rewritten[line].code = line

\* C8: a statement that matches no rule is appended to the output with its
\* own text, at most a leading `local` removed, wherever it stands, and it
\* is never dropped.  The code breaks it: in a function body parse_block
\* puts the body indentation in front of the line's own indentation.
C8_PlainUnchanged ==
    /\ \A k \in 1..Len(py_lines) :
          Unruled(lines[src_of[k] + 1]) =>
             py_lines[k] \in {lines[src_of[k] + 1] \o NL, StripLocal(lines[src_of[k] + 1]) \o NL}
    /\ \A i \in 1..current_line :
          Unruled(lines[i]) => Cardinality({k \in 1..Len(src_of) : src_of[k] = i - 1}) = 1

\* a line that calls into the gg namespace through a function of gg_patterns
GGCallLine(line) ==
    \/ Contains(line, <<"g","g",".","g","e","t","R","a","n","g","e","s","(">>)
    \/ Contains(line, <<"g","g",".","c","l","e","a","r","R","e","s","u","l","t","s","(">>)
    \/ Contains(line, <<"g","g",".","s","e","a","r","c","h","N","u","m","b","e","r","(">>)

\* C9: when the input holds a call into the gg namespace that the rewrite
\* table covers, the header of the returned text holds `import gg` exactly
\* once.  The code breaks it: a call whose rewritten name differs from its
\* pattern (getRanges, clearResults) is not recorded and nothing is imported.
C9_ImportGGOnce ==
    (pc = "done" /\ \E i \in 1..Len(lines) : GGCallLine(lines[i])) =>
       Cardinality({k \in 1..Len(result.header) : result.header[k] = "import gg"}) = 1

\* the emitted lines that stand for the source line i (1-based)
OutputsOf(i) == {k \in 1..Len(src_of) : src_of[k] = i - 1}

\* C10: once convert() has returned, every label line `::done::` has its
\* marker definition as its one output line and every `goto done` line its
\* call, and the output lines follow the order of their source lines, no
\* source line having more than one.
C10_GotoLabelInPlace ==
    pc = "done" =>
       /\ \A i \in 1..Len(lines) :
             /\ lines[i] = <<":",":","d","o","n","e",":",":">> =>
                   \E k \in OutputsOf(i) :
                      /\ OutputsOf(i) = {k}
                      /\ LStrip(py_lines[k]) = <<"d","e","f"," ","g","o","t","o","_","d","o","n","e","(",")",":"," ","p","a","s","s">> \o NL
             /\ lines[i] = <<"g","o","t","o"," ","d","o","n","e">> =>
                   \E k \in OutputsOf(i) :
                      /\ OutputsOf(i) = {k}
                      /\ LStrip(py_lines[k]) = <<"g","o","t","o","_","d","o","n","e","(",")">> \o NL
             /\ Cardinality(OutputsOf(i)) <= 1
       /\ Len(src_of) = Len(py_lines)
       /\ \A k \in 1..(Len(src_of) - 1) : src_of[k] < src_of[k + 1]

\* a label, a statement and the goto to the label have been converted
C10_Witness ==
    /\ pc = "done"
    /\ Len(lines) = 3
    /\ lines[1] = <<":",":","d","o","n","e",":",":">>
    /\ lines[3] = <<"g","o","t","o"," ","d","o","n","e">>
    /\ Unruled(lines[2])
    /\ Len(py_lines) = 3

\* the four-line input of the worked example
Example == << <<"l","o","c","a","l"," ","x"," ","="," ","1">>, <<"i","f"," ","x"," ","=","="," ","1"," ","t","h","e","n">>, <<" "," ","p","r","i","n","t","(","x",")">>, <<"e","n","d">> >>

\* C11: converting the worked example on a fresh instance never fails, and
\* once convert() has returned the body is the assignment `x = 1`, the
\* header `if x == 1:` and the call `print(x)` in this order, with no
\* diagnostic, no import and an empty construct stack.
C11_WorkedExample ==
    lines = Example =>
       /\ pc # "error"
       /\ pc = "done" =>
             /\ py_lines = << <<"x"," ","="," ","1">> \o NL, <<"i","f"," ","x"," ","=","="," ","1",":">> \o NL, <<" "," ","p","r","i","n","t","(","x",")">> \o NL >>
             /\ result.py_code = <<"x"," ","="," ","1","\n","i","f"," ","x"," ","=","="," ","1",":","\n"," "," ","p","r","i","n","t","(","x",")","\n">>
             /\ warnings = <<>>
             /\ imports = {}
             /\ stack = <<>>

\* the worked example has been converted
C11_Witness ==
    /\ lines = Example
    /\ pc = "done"
    /\ current_line = 4
    /\ pushed = 1 /\ popped = 1

\* the lines after the table header under the cursor that hold a closing
\* brace at an indentation up to the header's (1-based)
ClosingBraces ==
    {i \in (current_line + 2)..Len(lines) :
        Strip(lines[i]) = <<"}">> /\ Leading(lines[i]) <= Leading(Line)}

\* C12: the cursor grows with every step of the main loop, and the lines a
\* table consumes, the line of its closing brace included, are behind the
\* cursor when parse_table has returned.  The code breaks it: parse_table
\* returns the index of the closing brace itself, and the main loop
\* dispatches that line again and emits it as a statement.
C12_NoLineRevisited ==
    [][/\ (pc = "loop" /\ pc' = "loop") => current_line' > current_line
       /\ (At("table") /\ ClosingBraces # {}) => current_line' >= Min(ClosingBraces)]_vars

\* the printable ASCII characters in code order (the backquote by its
\* name), and the code of one
Ascii ==
    <<" ","!","\"","#","$","%","&","'","(",")","*","+",",","-",".","/","0","1","2","3","4","5","6","7","8","9",":",";","<","=",">","?","@","A","B","C","D","E","F","G","H","I","J","K","L","M","N","O","P","Q","R","S","T","U","V","W","X","Y","Z","[","\\","]","^","_">> \o <<"backquote">>
       \o <<"a","b","c","d","e","f","g","h","i","j","k","l","m","n","o","p","q","r","s","t","u","v","w","x","y","z","{","|","}","~">>
Code(c) == CHOOSE k \in 1..Len(Ascii) : Ascii[k] = c

\* a < b in the order of Python's str
StrLess(a, b) ==
    \E k \in 1..(Len(b)) :
       /\ k <= Len(a) + 1
       /\ \A j \in 1..(k - 1) : a[j] = b[j]
       /\ (k = Len(a) + 1 \/ Code(a[k]) < Code(b[k]))

\* the text of the directives of the header of the returned value, in
\* their order
DirectiveLines == [k \in 1..Len(result.header) |-> DirectiveText(result.header[k])]

\* the diagnostics block the returned text has to start with
ExpectedBlock ==
    IF warnings = <<>> THEN <<>>
    ELSE Heading \o NL \o Flatten([k \in 1..Len(warnings) |-> WarningText(warnings[k]) \o NL]) \o NL

\* the import lines the returned text has to go on with
ExpectedImports ==
    IF imports = {} THEN <<>>
    ELSE Flatten([k \in 1..Len(DirectiveLines) |->
                     DirectiveLines[k] \o (IF k < Len(DirectiveLines) THEN NL ELSE <<>>)])
            \o NL \o NL

\* C13: the text convert() returns is the diagnostics block (only when
\* there is a diagnostic), then the import directives (only when there is
\* an import), each once and in sorted order, then the translated body.
C13_ReturnedText ==
    pc = "done" =>
       /\ result.text = ExpectedBlock \o ExpectedImports \o Flatten(py_lines)
       /\ {result.header[k] : k \in 1..Len(result.header)} = imports
       /\ Len(result.header) = Cardinality(imports)
       /\ \A k \in 1..(Len(DirectiveLines) - 1) : StrLess(DirectiveLines[k], DirectiveLines[k + 1])

\* convert() has returned a text with a diagnostic, two imports and a body
C13_Witness ==
    /\ pc = "done"
    /\ warnings # <<>>
    /\ Cardinality(imports) = 2
    /\ py_lines # <<>>

\* the lines of a text: text.split('\n')
RECURSIVE TextLines(_)
TextLines(text) ==
    IF ~Contains(text, NL) THEN <<text>>
    ELSE <<SplitHead(text, NL)>> \o TextLines(SplitTail(text, NL))

\* C14: when there is a diagnostic, the heading and every diagnostic of the
\* block that leads the returned text are comment lines, each beginning
\* with `#`.  The code breaks it: only the heading carries the marker, the
\* diagnostics follow it as bare text.
C14_DiagnosticsAreComments ==
    (pc = "done" /\ warnings # <<>>) =>
       \A k \in 1..(Len(warnings) + 1) :
          /\ k <= Len(TextLines(result.text))
          /\ StartsWith(TextLines(result.text)[k], <<"#">>)

IfHeader(m) == m.indent_str \o <<"i","f"," ">> \o m.cond \o <<":">> \o NL

\* C16: a control line inside a function body is dispatched as at top
\* level.  Stated for the line that follows the `function` line when it is
\* an `if ... then` line: the step that takes the function line emits, right
\* after the `def` header, the translated `if` header, and has pushed a frame
\* for the `if` besides the function's.  The code breaks it: parse_block
\* consumes the body, emitting every line as a rewritten plain statement at
\* the body's indentation and pushing nothing.
C16_BodyDispatched ==
    [][(/\ FunctionDef
        /\ current_line + 1 < Len(lines)
        /\ ShapeOf[lines[current_line + 2]].if)
       => /\ Len(py_lines') >= Len(py_lines) + 2
          /\ py_lines'[Len(py_lines) + 2] = IfHeader(if_match(lines[current_line + 2]))
          /\ pushed' >= pushed + 2]_vars

\* the guard of an emitted line `if <guard>: break`, <<>> for any other line
BreakGuard(py_line) ==
    IF StartsWith(Strip(py_line), <<"i","f"," ">>) /\ EndsWith(Strip(py_line), <<":"," ","b","r","e","a","k">>)
    THEN SubSeq(Strip(py_line), 4, Len(Strip(py_line)) - 7)
    ELSE <<>>

\* the truth value Python gives the guard when the condition cond, taken as
\* an atom, has the value v: `not` negates, parentheses group
RECURSIVE GuardValue(_, _, _)
GuardValue(guard, cond, v) ==
    IF guard = cond THEN v
    ELSE IF StartsWith(guard, <<"n","o","t"," ">>) THEN ~GuardValue(LStrip(Drop(guard, 5)), cond, v)
    ELSE IF StartsWith(guard, <<"(">>) /\ EndsWith(guard, <<")">>)
    THEN GuardValue(SubSeq(guard, 2, Len(guard) - 1), cond, v)
    ELSE v

\* the emitted line py_line is a conditional break, one level deeper than
\* the `until` line, that is taken exactly when the condition of the line holds
BreaksWhenTrue(py_line, m) ==
    /\ Leading(py_line) = Len(m.indent_str) + 4
    /\ BreakGuard(py_line) # <<>>
    /\ \A v \in BOOLEAN : GuardValue(BreakGuard(py_line), m.cond, v) = v

\* C17: an `until cond` line closes a loop only when a `repeat` frame is on
\* top of the stack: then exactly that frame is popped and the line emitted,
\* one level deeper, is a break taken exactly when cond is true, as Lua
\* leaves the loop; otherwise the stack is left alone and the line is
\* emitted as a plain statement.  The code breaks it: the break it emits is
\* guarded by `not (cond)`, so the emitted loop is left when cond is false
\* and goes on when cond is true.
C17_UntilClosesRepeat ==
    [][(pc = "loop" /\ current_line < Len(lines) /\ ShapeOf[Line].until)
       => IF stack # <<>> /\ Top(stack).type = "repeat"
          THEN /\ stack' = Pop(stack)
               /\ Len(py_lines') = Len(py_lines) + 1
               /\ BreaksWhenTrue(py_lines'[Len(py_lines')], until_match(Line))
          ELSE /\ stack' = stack
               /\ py_lines' = Append(py_lines, RStrip(PlainRewritten[Line].code) \o NL)]_vars

\* C18: nothing of one run of convert() leaks into the next on the same
\* instance: a call that returns after an earlier call on the same lines
\* returns the text the earlier call returned, with as many diagnostics and
\* the same import set.  The code breaks it: convert() resets py_lines,
\* stack and current_line only, so the diagnostics of the earlier run are
\* still in self.warnings and are reported again.
C18_NoLeakAcrossRuns ==
    (pc = "done" /\ previous # <<>>) =>
       \A k \in 1..Len(previous) :
          previous[k].result.returned =>
             /\ result.text = previous[k].result.text
             /\ Len(warnings) = previous[k].warnings
             /\ imports = previous[k].imports

====
